---- MODULE Spec2Model ----
(***************************************************************************)
(* Model of the libAeon echo-state-network core (fixed-point build):       *)
(* birth, update, predict, reset, train, prune, save and load, together    *)
(* with the 1-bit sign codec of the collective layer.                      *)
(*                                                                         *)
(* Fixed-point values are the raw integers the C code stores (Q8.8 for     *)
(* weights, the same 8 fractional bits for states).  Arrays are functions  *)
(* over 0..n-1 so that index arithmetic is the code's.                     *)
(***************************************************************************)
EXTENDS Integers, Sequences, FiniteSets, TLC

(***************************************************************************)
(* Build-time configuration (libAeon.h).  The reservoir size and the       *)
(* sparsity factor are scaled down from the header defaults 32 and 4; 9    *)
(* grid cells and 4 attempts make duplicate candidates occur.              *)
(***************************************************************************)
AEON_RESERVOIR_SIZE == 3
AEON_SPARSITY_FACTOR == 2
AEON_INPUT_SIZE == 1
AEON_OUTPUT_SIZE == 1
AEON_SCALE == 256
AEON_SCALE_BITS == 8
AEON_VERSION == 256

N == AEON_RESERVOIR_SIZE
SparseCap == (AEON_RESERVOIR_SIZE * AEON_RESERVOIR_SIZE) \div AEON_SPARSITY_FACTOR

(***************************************************************************)
(* Bounds of the exploration.                                              *)
(***************************************************************************)
MaxSamples == 2
MaxUpdates == 2
MaxSessions == 1
PersistUpdates == 1
ShortLen == 40

MaxWeights == 9
TanhRange == 300
MaxSeed == 200
MaxState == 300
MaxRetrains == 2
MaxLowSeed == 40
SeedChunk == 8
MaxDraws == 3
MaxInt31 == 2147483647

\* The reservoir size and sparsity factor libAeon.h defines when the build
\* does not.
DefaultReservoirSize == 32
DefaultSparsityFactor == 4

(***************************************************************************)
(* C integer arithmetic.                                                   *)
(***************************************************************************)
Abs(x) == IF x < 0 THEN -x ELSE x

\* C integer division truncates toward zero.
TruncDiv(a, b) == IF a >= 0 THEN a \div b ELSE -((-a) \div b)

\* x >> AEON_SCALE_BITS on a signed value: arithmetic shift, i.e. floor.
Shr8(x) == x \div 256

\* (x + y) mod 2^31 for 0 <= x, y < 2^31, without leaving 32-bit range.
AddMod31(x, y) == IF x > MaxInt31 - y THEN (x - (MaxInt31 - y)) - 1 ELSE x + y

\* (s * 1103515245) mod 2^31 by 16-bit limbs of s and of the multiplier
\* 1103515245 = 16838 * 2^16 + 78 * 2^8 + 109.
MulLcgMod31(s) ==
  LET s0 == s % 65536
      s1 == (s \div 65536) % 32768
      lo == s0 * 109
      mid == ((s0 * 78) % 8388608) * 256
      a0 == 78 * 256 + 109
      hi == ((((s1 * a0) % 32768) + ((s0 * 16838) % 32768)) % 32768) * 65536
  IN  AddMod31(AddMod31(lo, mid), hi)

\* aeon_random masking with 0x3fffffff.
RandomMasks30(s) == AddMod31(MulLcgMod31(s), 12345) % 1073741824

\* aeon_random: *state = (*state * 1103515245 + 12345) & 0x7fffffff.
aeon_random(s) == AddMod31(MulLcgMod31(s), 12345)

RECURSIVE Xor31(_, _, _)
\* Bitwise exclusive or of two values below 2^31, bit by bit.
Xor31(a, b, bits) ==
  IF bits = 0 THEN 0
  ELSE (((a % 2) + (b % 2)) % 2) + 2 * Xor31(a \div 2, b \div 2, bits - 1)

\* aeon_tanh_approx adding the cubic term.
TanhAddsCube(x) ==
  IF x > AEON_SCALE THEN AEON_SCALE
  ELSE IF x < -AEON_SCALE THEN -AEON_SCALE
  ELSE x + TruncDiv(Shr8(Shr8(x * x) * x), 3)

\* aeon_tanh_approx saturating from the scale on.
TanhSaturatesFromOne(x) ==
  IF x >= AEON_SCALE THEN AEON_SCALE
  ELSE IF x <= -AEON_SCALE THEN -AEON_SCALE
  ELSE x - TruncDiv(Shr8(Shr8(x * x) * x), 3)

\* aeon_tanh_approx saturating at twice the scale.
TanhWideSaturation(x) ==
  IF x > AEON_SCALE THEN 2 * AEON_SCALE
  ELSE IF x < -AEON_SCALE THEN -2 * AEON_SCALE
  ELSE x - TruncDiv(Shr8(Shr8(x * x) * x), 3)

\* aeon_tanh_approx, fixed-point branch.
aeon_tanh_approx(x) ==
  IF x > AEON_SCALE THEN AEON_SCALE
  ELSE IF x < -AEON_SCALE THEN -AEON_SCALE
  ELSE LET x2 == Shr8(x * x)
           x3 == Shr8(x2 * x)
       IN  x - TruncDiv(x3, 3)

(***************************************************************************)
(* Birth.                                                                  *)
(***************************************************************************)
RECURSIVE HashBytes(_, _)
\* generate_hash's loop body: 16 successive LCG iterates, low byte of each.
HashBytes(st, n) ==
  IF n = 0 THEN << >>
  ELSE LET nx == aeon_random(st) IN << nx % 256 >> \o HashBytes(nx, n - 1)

generate_hash(seed, timestamp) == HashBytes(Xor31(seed, timestamp, 31), 16)

\* A weight taken from bits 16..23 of the draw.
DrawWeightHighBits(r) == ((r \div 65536) % 256) - 128

\* (aeon_weight_t)((r % 256) - 128)
DrawWeight(r) == (r % 256) - 128

RECURSIVE DrawWin(_, _, _)
\* The W_in loop: count draws from the generator; result is the pair
\* <<weights drawn so far, generator state>>.
DrawWin(rng, count, acc) ==
  IF count = 0 THEN << acc, rng >>
  ELSE LET r == aeon_random(rng)
       IN  DrawWin(r, count - 1, Append(acc, DrawWeight(r)))

\* A duplicate scan that never finds the candidate.
NeverExists(idxs, idx) == FALSE

\* The duplicate scan over sparse_indices[0 .. sparse_count-1].
Exists(idxs, idx) == \E j \in 1..Len(idxs) : idxs[j] = idx

RECURSIVE FillSparseRetrying(_, _, _, _, _, _, _)
\* The sparse-population loop drawing again after a duplicate, without
\* counting the attempt.
FillSparseRetrying(rng, i, total, target, idxs, ws, cands) ==
  IF ~(i < target /\ Len(idxs) < target) THEN << idxs, ws, rng, cands >>
  ELSE LET r == aeon_random(rng)
           idx == r % total
       IN  IF Exists(idxs, idx)
           THEN FillSparseRetrying(r, i, total, target, idxs, ws, Append(cands, idx))
           ELSE LET r2 == aeon_random(r)
                IN  FillSparseRetrying(r2, i + 1, total, target,
                                       Append(idxs, idx), Append(ws, DrawWeight(r2)),
                                       Append(cands, idx))

RECURSIVE FillSparse(_, _, _, _, _, _, _)
\* The sparse-population loop: i counts attempts, idxs/ws are the entries
\* stored so far (sparse_count = Len(idxs)), cands the candidate indices
\* drawn so far.  The result also carries the generator state on exit.
FillSparse(rng, i, total, target, idxs, ws, cands) ==
  IF ~(i < target /\ Len(idxs) < target) THEN << idxs, ws, rng, cands >>
  ELSE LET r == aeon_random(rng)
           idx == r % total
       IN  IF Exists(idxs, idx)
           THEN FillSparse(r, i + 1, total, target, idxs, ws, Append(cands, idx))
           ELSE LET r2 == aeon_random(r)
                IN  FillSparse(r2, i + 1, total, target,
                               Append(idxs, idx), Append(ws, DrawWeight(r2)),
                               Append(cands, idx))

\* A sequence laid out in a zeroed C array of the given capacity.
ToArray(s, cap) == [k \in 0..(cap - 1) |-> IF k < Len(s) THEN s[k + 1] ELSE 0]

Zeros(n) == [k \in 0..(n - 1) |-> 0]

\* The seed used as given, zero included.
ZeroSeedKept(seed, now) == seed

\* The effective seed mixed with the clock whatever the seed is.
ClockMixedSeed(seed, now) == IF seed = 0 THEN now ELSE Xor31(seed, now, 31)

\* if (seed == 0) seed = (uint32_t)core->certificate.birth_time;
EffectiveSeed(seed, now) == IF seed = 0 THEN now ELSE seed

\* aeon_birth: the whole core as it is on return.
aeon_birth(seed, now) ==
  LET eff == EffectiveSeed(seed, now)
      win == DrawWin(eff, AEON_RESERVOIR_SIZE * AEON_INPUT_SIZE, << >>)
      total == AEON_RESERVOIR_SIZE * AEON_RESERVOIR_SIZE
      sp == FillSparse(win[2], 0, total, total \div AEON_SPARSITY_FACTOR, << >>, << >>, << >>)
  IN  [ birth_time |-> now,
        birth_hash |-> generate_hash(eff, now),
        reservoir_seed |-> eff,
        reservoir_size |-> AEON_RESERVOIR_SIZE,
        version |-> AEON_VERSION,
        state |-> Zeros(AEON_RESERVOIR_SIZE),
        W_in |-> ToArray(win[1], AEON_RESERVOIR_SIZE * AEON_INPUT_SIZE),
        W_reservoir |-> ToArray(sp[2], SparseCap),
        W_out |-> Zeros(AEON_OUTPUT_SIZE * AEON_RESERVOIR_SIZE),
        sparse_indices |-> ToArray(sp[1], SparseCap),
        sparse_count |-> Len(sp[1]),
        samples_processed |-> 0,
        learning_sessions |-> 0,
        is_trained |-> FALSE ]

(***************************************************************************)
(* Processing.                                                             *)
(***************************************************************************)
RECURSIVE InputSum(_, _, _, _)
\* The inner j loop of aeon_update: sum of (W_in[i*I+j] * input[j]) >> 8.
InputSum(core, input, i, j) ==
  IF j = AEON_INPUT_SIZE THEN 0
  ELSE Shr8(core.W_in[i * AEON_INPUT_SIZE + j] * input[j])
       + InputSum(core, input, i, j + 1)

RECURSIVE SparseSum(_, _, _)
\* The k loop of aeon_update restricted to row i: every stored entry whose
\* row is i adds (W_reservoir[k] * state[col]) >> 8, read from the old state.
SparseSum(core, i, k) ==
  IF k = core.sparse_count THEN 0
  ELSE LET idx == core.sparse_indices[k]
           row == idx \div AEON_RESERVOIR_SIZE
           col == idx % AEON_RESERVOIR_SIZE
       IN  (IF row = i THEN Shr8(core.W_reservoir[k] * core.state[col]) ELSE 0)
           + SparseSum(core, i, k + 1)

RECURSIVE UpdateRowsInPlace(_, _, _)
\* Rows updated one after the other in the state array itself.
UpdateRowsInPlace(core, input, i) ==
  IF i = AEON_RESERVOIR_SIZE THEN core
  ELSE UpdateRowsInPlace(
         [core EXCEPT !.state[i] =
            aeon_tanh_approx(InputSum(core, input, i, 0) + SparseSum(core, i, 0))],
         input, i + 1)

\* aeon_update without the new_state buffer.
UpdateInPlace(core, input) ==
  [UpdateRowsInPlace(core, input, 0) EXCEPT !.samples_processed = @ + 1]

\* aeon_update without the increment of the sample counter.
UpdateSkipsCounter(core, input) ==
  [core EXCEPT
     !.state = [i \in 0..(AEON_RESERVOIR_SIZE - 1) |->
                  aeon_tanh_approx(InputSum(core, input, i, 0) + SparseSum(core, i, 0))]]

\* aeon_update with non-null arguments.
aeon_update(core, input) ==
  [core EXCEPT
     !.state = [i \in 0..(AEON_RESERVOIR_SIZE - 1) |->
                  aeon_tanh_approx(InputSum(core, input, i, 0) + SparseSum(core, i, 0))],
     !.samples_processed = @ + 1]

RECURSIVE ReadoutSum(_, _, _)
\* The inner j loop of aeon_predict.
ReadoutSum(core, i, j) ==
  IF j = AEON_RESERVOIR_SIZE THEN 0
  ELSE Shr8(core.W_out[i * AEON_RESERVOIR_SIZE + j] * core.state[j])
       + ReadoutSum(core, i, j + 1)

\* aeon_predict leaving its outputs in the first state elements.
PredictIntoState(core) ==
  LET out == [i \in 0..(AEON_OUTPUT_SIZE - 1) |-> ReadoutSum(core, i, 0)]
  IN  [core |-> [core EXCEPT !.state = [j \in 0..(AEON_RESERVOIR_SIZE - 1) |->
                                          IF j < AEON_OUTPUT_SIZE THEN out[j] ELSE @[j]]],
       out |-> out]

\* aeon_predict with non-null arguments: [core, out], the core on return and
\* the output vector written.
aeon_predict(core) ==
  [core |-> core, out |-> [i \in 0..(AEON_OUTPUT_SIZE - 1) |-> ReadoutSum(core, i, 0)]]

\* aeon_reset clearing from the start of the struct: the certificate's seed
\* and version go with the state.
ResetClearsCertificate(core) ==
  [core EXCEPT !.state = Zeros(AEON_RESERVOIR_SIZE), !.reservoir_seed = 0, !.version = 0]

\* aeon_reset clearing the sample counter with the state.
ResetClearsCounter(core) ==
  [core EXCEPT !.state = Zeros(AEON_RESERVOIR_SIZE), !.samples_processed = 0]

\* aeon_reset: memset of the state array.
aeon_reset(core) == [core EXCEPT !.state = Zeros(AEON_RESERVOIR_SIZE)]

(***************************************************************************)
(* Training.  The normal equations are accumulated and solved in float;    *)
(* the model takes the solved pre-clamp value of every readout weight as   *)
(* an input of the call, in tenths of a raw Q8.8 unit (solved * 256 * 10), *)
(* and models the clamp and the conversion that store it.                  *)
(***************************************************************************)
SolveUnit == 10

\* The conversion of the solved value without the clamp.
StoreUnclamped(sumQ) == TruncDiv(sumQ, SolveUnit)

\* if (sum > 2.0f) sum = 2.0f; if (sum < -2.0f) sum = -2.0f;
\* W_out = (aeon_weight_t)(sum * AEON_SCALE)  -- the cast truncates.
StoreReadout(sumQ) ==
  LET hiQ == 2 * AEON_SCALE * SolveUnit
      cl == IF sumQ > hiQ THEN hiQ ELSE IF sumQ < -hiQ THEN -hiQ ELSE sumQ
  IN  TruncDiv(cl, SolveUnit)

RECURSIVE RunUpdatesAdaptingInput(_, _, _, _)
\* The harvest loop halving the input weights after every sample.
RunUpdatesAdaptingInput(core, inputs, from, to) ==
  IF from >= to THEN core
  ELSE RunUpdatesAdaptingInput(
         [aeon_update(core, [j \in 0..(AEON_INPUT_SIZE - 1) |-> inputs[from * AEON_INPUT_SIZE + j]])
            EXCEPT !.W_in = [k \in DOMAIN @ |-> TruncDiv(@[k], 2)]],
         inputs, from + 1, to)

RECURSIVE RunUpdates(_, _, _, _)
\* for (t = from; t < to; t++) aeon_update(core, &inputs[t * I]).
RunUpdates(core, inputs, from, to) ==
  IF from >= to THEN core
  ELSE RunUpdates(
         aeon_update(core, [j \in 0..(AEON_INPUT_SIZE - 1) |-> inputs[from * AEON_INPUT_SIZE + j]]),
         inputs, from + 1, to)

RECURSIVE Harvest(_, _, _, _, _, _)
\* The harvest loop: every sample is fed to aeon_update and, from the washout
\* on, the state right after the update and the sample's targets are added
\* to the accumulators.  The result is the sequence of the rows added:
\* StS[i][j] is the sum of state[i] * state[j] over them and StY[i][o] the
\* sum of state[i] * target[o].
Harvest(core, inputs, targets, t, n_samples, washout) ==
  IF t >= n_samples THEN << >>
  ELSE LET c1 == aeon_update(core, [j \in 0..(AEON_INPUT_SIZE - 1) |-> inputs[t * AEON_INPUT_SIZE + j]])
       IN  (IF t < washout THEN << >>
            ELSE << [state |-> c1.state,
                     target |-> [o \in 0..(AEON_OUTPUT_SIZE - 1) |->
                                   targets[t * AEON_OUTPUT_SIZE + o]]] >>)
           \o Harvest(c1, inputs, targets, t + 1, n_samples, washout)

\* The rows a train call harvests from the state the core is in.
TrainHarvestWarm(core, inputs, targets, n_samples, washout) ==
  Harvest(core, inputs, targets, 0, n_samples, washout)

\* The rows a successful train call gives its accumulators: aeon_reset, then
\* the harvest loop over all n_samples samples.
TrainHarvest(core, inputs, targets, n_samples, washout) ==
  Harvest(aeon_reset(core), inputs, targets, 0, n_samples, washout)

RECURSIVE SquaredError(_, _, _, _, _)
\* The MSE loop: update, predict, accumulate diff * diff.  The result is the
\* pair <<core on exit, sum of squared raw residuals>>; the returned float is
\* that sum / (256 * 256 * train_samples * O).
SquaredError(core, inputs, targets, t, to) ==
  IF t >= to THEN << core, 0 >>
  ELSE LET c1 == aeon_update(core, [j \in 0..(AEON_INPUT_SIZE - 1) |-> inputs[t * AEON_INPUT_SIZE + j]])
           pred == aeon_predict(c1).out
           RECURSIVE Row(_)
           Row(o) == IF o = AEON_OUTPUT_SIZE THEN 0
                     ELSE LET d == pred[o] - targets[t * AEON_OUTPUT_SIZE + o]
                          IN  d * d + Row(o + 1)
           rest == SquaredError(c1, inputs, targets, t + 1, to)
       IN  << rest[1], Row(0) + rest[2] >>

\* aeon_train's body marking the core trained without counting the session.
TrainBodyUncounted(core, inputs, targets, n_samples, washout, solved) ==
  LET c1 == RunUpdates(aeon_reset(core), inputs, 0, n_samples)
      c2 == [c1 EXCEPT
               !.W_out = [k \in 0..(AEON_OUTPUT_SIZE * AEON_RESERVOIR_SIZE - 1) |->
                            StoreReadout(solved[k])],
               !.is_trained = TRUE]
      ev == SquaredError(aeon_reset(c2), inputs, targets, washout, n_samples)
  IN  [core |-> ev[1], ret |-> ev[2]]

\* aeon_train's body storing the readout without marking the core trained.
TrainBodyUnmarked(core, inputs, targets, n_samples, washout, solved) ==
  LET c1 == RunUpdates(aeon_reset(core), inputs, 0, n_samples)
      c2 == [c1 EXCEPT
               !.W_out = [k \in 0..(AEON_OUTPUT_SIZE * AEON_RESERVOIR_SIZE - 1) |->
                            StoreReadout(solved[k])],
               !.learning_sessions = @ + 1]
      ev == SquaredError(aeon_reset(c2), inputs, targets, washout, n_samples)
  IN  [core |-> ev[1], ret |-> ev[2]]

\* aeon_train's body computing the MSE from the state the harvest left.
TrainBodyReplaysWarm(core, inputs, targets, n_samples, washout, solved) ==
  LET c1 == RunUpdates(aeon_reset(core), inputs, 0, n_samples)
      c2 == [c1 EXCEPT
               !.W_out = [k \in 0..(AEON_OUTPUT_SIZE * AEON_RESERVOIR_SIZE - 1) |->
                            StoreReadout(solved[k])],
               !.is_trained = TRUE,
               !.learning_sessions = @ + 1]
      ev == SquaredError(c2, inputs, targets, washout, n_samples)
  IN  [core |-> ev[1], ret |-> ev[2]]

\* aeon_train after its argument checks: [core, ret], ret being the
\* (non-negative) sum of squared residuals the returned MSE is computed from.
TrainBody(core, inputs, targets, n_samples, washout, solved) ==
       LET c1 == RunUpdates(aeon_reset(core), inputs, 0, n_samples)
           c2 == [c1 EXCEPT
                    !.W_out = [k \in 0..(AEON_OUTPUT_SIZE * AEON_RESERVOIR_SIZE - 1) |->
                                 StoreReadout(solved[k])],
                    !.is_trained = TRUE,
                    !.learning_sessions = @ + 1]
           ev == SquaredError(aeon_reset(c2), inputs, targets, washout, n_samples)
       IN  [core |-> ev[1], ret |-> ev[2]]

\* aeon_train testing the sample count before the pointers.
TrainChecksCountFirst(core, null_arg, inputs, targets, n_samples, washout, solved) ==
  IF n_samples <= washout THEN [core |-> core, ret |-> -2]
  ELSE IF null_arg THEN [core |-> core, ret |-> -1]
  ELSE TrainBody(core, inputs, targets, n_samples, washout, solved)

\* aeon_train resetting the core before it checks n_samples.
TrainResetsBeforeCheck(core, null_arg, inputs, targets, n_samples, washout, solved) ==
  IF null_arg THEN [core |-> core, ret |-> -1]
  ELSE IF n_samples <= washout THEN [core |-> aeon_reset(core), ret |-> -2]
  ELSE TrainBody(core, inputs, targets, n_samples, washout, solved)

\* aeon_train.  null_arg: one of core/inputs/targets is NULL.  The result is
\* [core, ret]: ret is -1 or -2 for the two sentinels, else TrainBody's.
aeon_train(core, null_arg, inputs, targets, n_samples, washout, solved) ==
  IF null_arg THEN [core |-> core, ret |-> -1]
  ELSE IF n_samples <= washout THEN [core |-> core, ret |-> -2]
  ELSE TrainBody(core, inputs, targets, n_samples, washout, solved)

(***************************************************************************)
(* Pruning.  The float threshold is given in thousandths.                  *)
(***************************************************************************)
ThresholdUnit == 1000

\* aeon_weight_t fixed_threshold = (aeon_weight_t)(threshold * AEON_SCALE);
FixedThreshold(thr) == TruncDiv(thr * AEON_SCALE, ThresholdUnit)

\* The loop test of aeon_prune: abs(w) < fixed_threshold.
Pruned(w, thr) == Abs(w) < FixedThreshold(thr)

\* aeon_prune: [core, ret] with ret = pruned_count.
aeon_prune(core, thr) ==
  LET total == AEON_OUTPUT_SIZE * AEON_RESERVOIR_SIZE
  IN  [core |-> [core EXCEPT !.W_out = [k \in 0..(total - 1) |->
                                          IF Pruned(core.W_out[k], thr) THEN 0 ELSE core.W_out[k]]],
       ret |-> Cardinality({k \in 0..(total - 1) : Pruned(core.W_out[k], thr)})]

(***************************************************************************)
(* Persistence: fwrite/fread of the whole struct.  The image is the byte   *)
(* sequence of the fields in declaration order, little-endian two's        *)
(* complement, with the alignment padding of the struct (zero bytes).      *)
(***************************************************************************)
Pow256(k) == IF k = 0 THEN 1 ELSE IF k = 1 THEN 256 ELSE IF k = 2 THEN 65536 ELSE 16777216

\* Byte k of the magnitude of v: the sign is lost.
ByteOfMagnitude(v, k) == IF k >= 4 THEN 0 ELSE (Abs(v) \div Pow256(k)) % 256

\* Byte k (0 = least significant) of the two's complement image of v.
ByteOf(v, k) == IF k >= 4 THEN (IF v < 0 THEN 255 ELSE 0) ELSE (v \div Pow256(k)) % 256

\* The n-byte little-endian image of v.
LE(v, n) == [k \in 1..n |-> ByteOf(v, k - 1)]

RECURSIVE ArrLE(_, _, _, _)
\* The image of the array elements arr[from .. count-1], n bytes each.
ArrLE(arr, from, count, n) ==
  IF from >= count THEN << >> ELSE LE(arr[from], n) \o ArrLE(arr, from + 1, count, n)

PadTo(len, align) == [k \in 1..((align - (len % align)) % align) |-> 0]

\* Field offsets of aeon_core_t.
OffState == 32
OffWin == OffState + 4 * AEON_RESERVOIR_SIZE
OffWres == OffWin + 2 * AEON_RESERVOIR_SIZE * AEON_INPUT_SIZE
OffWout == OffWres + 2 * SparseCap
OffIdx == OffWout + 2 * AEON_OUTPUT_SIZE * AEON_RESERVOIR_SIZE
OffCount == OffIdx + 2 * SparseCap
OffSamples == (OffCount + 2) + ((4 - ((OffCount + 2) % 4)) % 4)
OffSessions == OffSamples + 4
OffTrained == OffSessions + 4
SizeofCore == (OffTrained + 1) + ((8 - ((OffTrained + 1) % 8)) % 8)

\* The bytes fwrite(core, sizeof(aeon_core_t), 1, f) writes.
CoreImage(core) ==
  LET cert == LE(core.birth_time, 8) \o core.birth_hash \o LE(core.reservoir_seed, 4)
              \o LE(core.reservoir_size, 2) \o LE(core.version, 2)
      body == ArrLE(core.state, 0, AEON_RESERVOIR_SIZE, 4)
              \o ArrLE(core.W_in, 0, AEON_RESERVOIR_SIZE * AEON_INPUT_SIZE, 2)
              \o ArrLE(core.W_reservoir, 0, SparseCap, 2)
              \o ArrLE(core.W_out, 0, AEON_OUTPUT_SIZE * AEON_RESERVOIR_SIZE, 2)
              \o ArrLE(core.sparse_indices, 0, SparseCap, 2)
              \o LE(core.sparse_count, 2)
      upto == cert \o body
      stats == LE(core.samples_processed, 4) \o LE(core.learning_sessions, 4)
               \o << IF core.is_trained THEN 1 ELSE 0 >>
      img == upto \o PadTo(Len(upto), 4) \o stats
  IN  img \o PadTo(Len(img), 8)

RECURSIVE Unsigned(_, _, _)
\* The unsigned value of the n bytes at offset off (uint16_t, uint32_t, time_t).
Unsigned(b, off, n) ==
  IF n = 0 THEN 0 ELSE b[off + 1] + 256 * Unsigned(b, off + 1, n - 1)

\* The signed value of the n bytes at offset off (int16_t, int32_t).
Signed(b, off, n) ==
  LET top == b[off + n]
  IN  Unsigned(b, off, n - 1) + Pow256(n - 1) * (IF top >= 128 THEN top - 256 ELSE top)

\* The core whose memory holds the bytes b (what fread leaves in *core).
CoreOfImage(b) ==
  [ birth_time |-> Unsigned(b, 0, 4),
    birth_hash |-> [k \in 1..16 |-> b[8 + k]],
    reservoir_seed |-> Unsigned(b, 24, 4),
    reservoir_size |-> Unsigned(b, 28, 2),
    version |-> Unsigned(b, 30, 2),
    state |-> [k \in 0..(AEON_RESERVOIR_SIZE - 1) |-> Signed(b, OffState + 4 * k, 4)],
    W_in |-> [k \in 0..(AEON_RESERVOIR_SIZE * AEON_INPUT_SIZE - 1) |-> Signed(b, OffWin + 2 * k, 2)],
    W_reservoir |-> [k \in 0..(SparseCap - 1) |-> Signed(b, OffWres + 2 * k, 2)],
    W_out |-> [k \in 0..(AEON_OUTPUT_SIZE * AEON_RESERVOIR_SIZE - 1) |-> Signed(b, OffWout + 2 * k, 2)],
    sparse_indices |-> [k \in 0..(SparseCap - 1) |-> Unsigned(b, OffIdx + 2 * k, 2)],
    sparse_count |-> Unsigned(b, OffCount, 2),
    samples_processed |-> Unsigned(b, OffSamples, 4),
    learning_sessions |-> Unsigned(b, OffSessions, 4),
    is_trained |-> b[OffTrained + 1] # 0 ]

\* aeon_save with non-null arguments.  io is what the filesystem does:
\* "ok", "open_failed" (fopen returns NULL) or "short" (fwrite writes only
\* ShortLen bytes).  The result is [file, ret]; file = << >> is no file.
aeon_save(core, old_file, io) ==
  IF io = "open_failed" THEN [file |-> old_file, ret |-> -2]
  ELSE IF io = "short" THEN [file |-> SubSeq(CoreImage(core), 1, ShortLen), ret |-> -3]
  ELSE [file |-> CoreImage(core), ret |-> 0]

\* aeon_load with non-null arguments: [core, ret].  A short file leaves the
\* bytes that were read in the front of the core and returns -3.
aeon_load(core, the_file) ==
  IF the_file = << >> THEN [core |-> core, ret |-> -2]
  ELSE IF Len(the_file) < SizeofCore
       THEN [core |-> CoreOfImage(the_file \o SubSeq(CoreImage(core), Len(the_file) + 1, SizeofCore)),
             ret |-> -3]
       ELSE [core |-> CoreOfImage(the_file), ret |-> 0]

(***************************************************************************)
(* The 1-bit sign codec (quantization.c).  Float weights and the scale are *)
(* in hundredths: the codec only compares a weight with zero and copies or *)
(* negates the scale.  Element i of a C array is element i + 1 of the      *)
(* sequence that models it.                                                *)
(***************************************************************************)
RECURSIVE Pow2(_)
Pow2(k) == IF k = 0 THEN 1 ELSE 2 * Pow2(k - 1)

\* byte & (1 << k)
BitSet(byte, k) == (byte \div Pow2(k)) % 2 = 1

\* Sets the bits most-significant first.
SetBitMsbFirst(byte, k) == IF BitSet(byte, 7 - k) THEN byte ELSE byte + Pow2(7 - k)

\* byte |= (1 << k)
SetBit(byte, k) == IF BitSet(byte, k) THEN byte ELSE byte + Pow2(k)

\* The loop of quantize_1bit from index i on.
RECURSIVE QuantizeLoop(_, _, _, _)
QuantizeLoop(weights, count, i, output) ==
  IF i >= count THEN output
  ELSE QuantizeLoop(weights, count, i + 1,
                    IF weights[i + 1] >= 0
                    THEN [output EXCEPT ![(i \div 8) + 1] = SetBit(@, i % 8)]
                    ELSE output)

\* quantize_1bit with non-null buffers: [output, ret]
quantize_1bit(weights, count, output) ==
  IF count <= 0 THEN [output |-> output, ret |-> 0]
  ELSE LET bytes == (count + 7) \div 8
           cleared == [k \in 1..Len(output) |-> IF k <= bytes THEN 0 ELSE output[k]]
       IN  [output |-> QuantizeLoop(weights, count, 0, cleared), ret |-> bytes]

\* dequantize_1bit reading the bits of a byte most-significant first.
DequantizeMsbFirst(input, count, weights, scale) ==
  IF count <= 0 THEN weights
  ELSE [k \in 1..Len(weights) |->
          LET i == k - 1
          IN  IF i < count
              THEN IF (input[(i \div 8) + 1] \div Pow2(7 - (i % 8))) % 2 = 1
                   THEN scale ELSE 0 - scale
              ELSE weights[k]]

\* dequantize_1bit with non-null buffers: the weights array after the call.
dequantize_1bit(input, count, weights, scale) ==
  IF count <= 0 THEN weights
  ELSE [k \in 1..Len(weights) |->
          LET i == k - 1
          IN  IF i < count
              THEN IF BitSet(input[(i \div 8) + 1], i % 8) THEN scale ELSE 0 - scale
              ELSE weights[k]]

(***************************************************************************)
(* The state machine: two cores, one snapshot file, and the last call.     *)
(***************************************************************************)
CoreIds == {"a", "b"}

\* Seeds passed to aeon_birth (0 = use the clock) and values of time(NULL).
Seeds == {0, 3, 12345, 555, 1700000000}
LifeSeeds == {12345, 555}
Clocks == {1700000000, 1700000001}

\* Input samples of aeon_update (raw fixed-point; 256 = 1.0).
Inputs == {-200, 1000000}

\* Training buffers: inputs[t] cycles through TrainSamples from an offset,
\* targets are the next input with wrap (test_aeon.c).
TrainSamples == << 128, 20000, -256 >>
DataIds == {0}
\* Data sets of the repeated-training runs: the series from its first and
\* from its second sample.
RetrainDataIds == {0, 1}
TrainInputs(d) ==
  [t \in 0..(MaxSamples * AEON_INPUT_SIZE - 1) |-> TrainSamples[((t + d) % Len(TrainSamples)) + 1]]
TrainTargets(d, n) ==
  [t \in 0..(MaxSamples * AEON_OUTPUT_SIZE - 1) |->
     TrainInputs(d)[IF n = 0 THEN 0 ELSE (t + 1) % n]]

\* Washout lengths passed to aeon_train.
Washouts == {0, 1}

\* Values the float solve may produce for a readout weight (in SolveUnit
\* tenths of a raw unit), and the readouts built from them.
SolvedValues == << 249, -255, 5130, -99999, 0, 300 >>
SolvedIds == {0, 3}
\* The outcome of the solve in the repeated-training runs.
RetrainSolvedId == 3
Solved(r) ==
  [k \in 0..(AEON_OUTPUT_SIZE * AEON_RESERVOIR_SIZE - 1) |->
     SolvedValues[((k + r) % Len(SolvedValues)) + 1]]

\* Pruning thresholds in thousandths: 0.1 (demo.c).
Thresholds == {100}

\* Weight vectors of the exchange, the scales of the receiver, and what a
\* freshly allocated payload byte may hold.
WeightValues == {-50, 0, 30}
AlternatingWeights == [k \in 1..16 |-> IF k % 2 = 1 THEN 30 ELSE -70]
WeightVectors == UNION {[1..n -> WeightValues] : n \in 0..MaxWeights} \cup {AlternatingWeights}
Scales == {25, 3200}
Garbage == {0, 255}

\* Pre-activations: every raw value around the saturation interval and the
\* extremes of the 32-bit range.
TanhInputs == (-TanhRange..TanhRange) \cup {-MaxInt31, MaxInt31}

\* Seeds of the sparse population: every small seed and the seeds of the tests.
FillSeeds == (1..MaxSeed) \cup (Seeds \ {0})

\* Seeds of find_seed.c's search and of the tests, and multiples of 1024 added
\* to them (the largest keeps the sum below 2^31).
SeedLows == (1..MaxLowSeed) \cup {999, 1023, 12345}
SeedHighs == {1, 2, 1660156, 2097139}

\* Generator states: the small ones, the seeds, both clocks and the largest
\* value the mask leaves.
RandomStates == (0..MaxState) \cup Seeds \cup Clocks \cup {MaxInt31 - 1, MaxInt31}

VARIABLES
  cores,   \* the aeon_core_t objects
  file,    \* the bytes of the snapshot file, << >> when there is none
  last,    \* the last call: operation, core, argument, return value, output
  hist,    \* per core: the arguments of its birth and what happened since
  wire,    \* the 1-bit weight exchange: weights, packet payload, recovered weights
  calc     \* the activation applied to a value, and the application before it

vars == << cores, file, last, hist, wire, calc >>

NoOutput == Zeros(AEON_OUTPUT_SIZE)

Call(op, c, arg, ret, out) == [op |-> op, core |-> c, arg |-> arg, ret |-> ret, out |-> out]

\* History of a core right after aeon_birth(seed, now).
Newborn(seed, now) ==
  [seed |-> seed, now |-> now, fresh |-> TRUE, updates |-> 0, trains |-> 0,
   loaded |-> FALSE, img |-> << >>, ins |-> << >>]

\* History after a call that changes the core other than by update.
Touched(h) == [h EXCEPT !.fresh = FALSE, !.img = << >>, !.ins = << >>]

\* Both cores have been born (test_core.c: seed 12345 for both).
InitEngine ==
  /\ \E t \in {1700000000} :
       /\ cores = [c \in CoreIds |-> aeon_birth(12345, t)]
       /\ hist = [c \in CoreIds |-> Newborn(12345, t)]
  /\ file = << >>
  /\ last = Call("birth", "a", 0, 0, NoOutput)
  /\ wire = [pc |-> "idle", weights |-> << >>, packet |-> << >>, ret |-> 0,
             recovered |-> << >>, scale |-> 0]

Init ==
  /\ InitEngine
  /\ calc = [pc |-> "idle", x |-> 0, y |-> 0, px |-> 0, py |-> 0]

\* The activation is about to be applied to a value of TanhInputs.
InitTanh ==
  /\ InitEngine
  /\ \E x \in TanhInputs : calc = [pc |-> "drawn", x |-> x, y |-> 0, px |-> x, py |-> 0]

Birth(c, seed, now) ==
  /\ cores' = [cores EXCEPT ![c] = aeon_birth(seed, now)]
  /\ hist' = [hist EXCEPT ![c] = Newborn(seed, now)]
  /\ last' = Call("birth", c, seed, 0, NoOutput)
  /\ UNCHANGED << file, wire, calc >>

Update(c, x) ==
  /\ hist[c].updates < MaxUpdates
  /\ cores' = [cores EXCEPT ![c] = aeon_update(@, [j \in 0..(AEON_INPUT_SIZE - 1) |-> x])]
  /\ hist' = [hist EXCEPT ![c] = [@ EXCEPT !.fresh = FALSE,
                                           !.updates = @ + 1,
                                           !.ins = IF @ = << >> /\ hist[c].img = << >>
                                                   THEN << >> ELSE Append(@, x)]]
  /\ last' = Call("update", c, x, 0, NoOutput)
  /\ UNCHANGED << file, wire, calc >>

\* aeon_update called with a null core or a null input: the early return.
UpdateNull(c) ==
  /\ last' = Call("update_null", c, 0, 0, NoOutput)
  /\ UNCHANGED << cores, file, hist, wire, calc >>

Predict(c) ==
  /\ LET res == aeon_predict(cores[c])
     IN  /\ cores' = [cores EXCEPT ![c] = res.core]
         /\ last' = Call("predict", c, 0, 0, res.out)
  /\ UNCHANGED << file, hist, wire, calc >>

Reset(c) ==
  /\ cores' = [cores EXCEPT ![c] = aeon_reset(@)]
  /\ hist' = [hist EXCEPT ![c] = Touched(@)]
  /\ last' = Call("reset", c, 0, 0, NoOutput)
  /\ UNCHANGED << file, wire, calc >>

\* One call of aeon_train on data set d; r selects the outcome of the solve.
\* With record, the rows a successful call accumulated are kept in last.out.
TrainCall(c, null_arg, d, n_samples, washout, r, record) ==
  /\ LET res == aeon_train(cores[c], null_arg, TrainInputs(d), TrainTargets(d, n_samples),
                           n_samples, washout, Solved(r))
     IN  /\ cores' = [cores EXCEPT ![c] = res.core]
         /\ hist' = [hist EXCEPT ![c] =
                       IF res.ret < 0 THEN @
                       ELSE [Touched(@) EXCEPT !.trains = @ + 1]]
         /\ last' = Call("train", c,
                         [null |-> null_arg, d |-> d, n |-> n_samples, w |-> washout],
                         res.ret,
                         IF record /\ res.ret >= 0
                         THEN TrainHarvest(cores[c], TrainInputs(d), TrainTargets(d, n_samples),
                                           n_samples, washout)
                         ELSE NoOutput)
  /\ UNCHANGED << file, wire, calc >>

Train(c, null_arg, d, n_samples, washout, r) ==
  /\ (null_arg \/ n_samples <= washout \/ cores[c].learning_sessions < MaxSessions)
  /\ TrainCall(c, null_arg, d, n_samples, washout, r, FALSE)

Prune(c, thr) ==
  /\ LET res == aeon_prune(cores[c], thr)
     IN  /\ cores' = [cores EXCEPT ![c] = res.core]
         /\ last' = Call("prune", c, thr, res.ret, NoOutput)
  /\ hist' = [hist EXCEPT ![c] = Touched(@)]
  /\ UNCHANGED << file, wire, calc >>

Save(c, io) ==
  /\ LET res == aeon_save(cores[c], file, io)
     IN  /\ file' = res.file
         /\ last' = Call("save", c, 0, res.ret, NoOutput)
         /\ hist' = [hist EXCEPT ![c] =
                       IF res.ret = 0 THEN [@ EXCEPT !.img = res.file, !.ins = << >>] ELSE @]
  /\ UNCHANGED << cores, wire, calc >>

Load(c) ==
  /\ LET res == aeon_load(cores[c], file)
     IN  /\ cores' = [cores EXCEPT ![c] = res.core]
         /\ last' = Call("load", c, 0, res.ret, NoOutput)
         /\ hist' = [hist EXCEPT ![c] =
                       IF res.ret = -2 THEN @
                       ELSE [@ EXCEPT !.fresh = FALSE, !.loaded = TRUE,
                                      !.img = IF res.ret = 0 THEN file ELSE << >>,
                                      !.ins = << >>]]
  /\ UNCHANGED << file, wire, calc >>

\* The lifecycle of one core: every operation of the engine on core "a".
Next ==
  \E c \in {"a"} :
    \/ \E s \in LifeSeeds : Birth(c, s, 1700000001)
    \/ \E x \in Inputs : Update(c, x)
    \/ UpdateNull(c)
    \/ Predict(c)
    \/ Reset(c)
    \/ \E n \in 0..MaxSamples, w \in Washouts, r \in SolvedIds : Train(c, FALSE, 0, n, w, r)
    \/ \E n \in {0, MaxSamples} : Train(c, TRUE, 0, n, 0, 0)
    \/ \E thr \in Thresholds : Prune(c, thr)

Spec == Init /\ [][Next]_vars

\* Births only, of both cores, from every seed and clock value.
NextBirth == \E c \in CoreIds, s \in Seeds, t \in Clocks : Birth(c, s, t)

SpecBirth == Init /\ [][NextBirth]_vars

\* Persistence: core "a" is trained, updated and saved; core "b" is loaded
\* (before it has been updated); both are updated and read out.
NextPersist ==
  \/ Train("a", FALSE, 0, 1, 0, 0)
  \/ \E io \in {"ok", "open_failed", "short"} : Save("a", io)
  \/ (hist["b"].updates = 0 /\ Load("b"))
  \/ \E c \in CoreIds :
       \/ \E x \in Inputs : hist[c].updates < PersistUpdates /\ Update(c, x)
       \/ Predict(c)

SpecPersist == Init /\ [][NextPersist]_vars

\* Reload: core "b" is born again with its own seed and clock value, then
\* loaded from the snapshot of core "a" and used.
NextReload ==
  \/ Birth("b", 555, 1700000001)
  \/ Train("a", FALSE, 0, 1, 0, 0)
  \/ \E io \in {"ok", "short"} : Save("a", io)
  \/ Load("b")
  \/ \E x \in {-200} : hist["b"].updates < PersistUpdates /\ Update("b", x)
  \/ Predict("b")
  \/ Reset("b")
  \/ hist["b"].trains < MaxSessions /\ Train("b", FALSE, 0, 1, 0, 3)
  \/ \E thr \in Thresholds : Prune("b", thr)

SpecReload == Init /\ [][NextReload]_vars

\* The 1-bit weight exchange of mock_mqtt.c: the sender generates weights
\* and allocates the payload, quantizes, and the receiver dequantizes.
Generate(ws, g) ==
  /\ wire.pc = "idle"
  /\ wire' = [pc |-> "generated", weights |-> ws,
              packet |-> [k \in 1..((Len(ws) + 7) \div 8) |-> g], ret |-> 0,
              recovered |-> [k \in 1..Len(ws) |-> 0], scale |-> 0]
  /\ UNCHANGED << cores, file, last, hist, calc >>

Quantize ==
  /\ wire.pc = "generated"
  /\ LET res == quantize_1bit(wire.weights, Len(wire.weights), wire.packet)
     IN  wire' = [wire EXCEPT !.pc = "quantized", !.packet = res.output, !.ret = res.ret]
  /\ UNCHANGED << cores, file, last, hist, calc >>

Dequantize(scale) ==
  /\ wire.pc = "quantized"
  /\ wire' = [wire EXCEPT !.pc = "dequantized", !.scale = scale,
                          !.recovered = dequantize_1bit(wire.packet, Len(wire.weights),
                                                        wire.recovered, scale)]
  /\ UNCHANGED << cores, file, last, hist, calc >>

NextCodec ==
  \/ wire.pc = "idle" /\ \E ws \in WeightVectors, g \in Garbage : Generate(ws, g)
  \/ Quantize
  \/ \E m \in Scales : Dequantize(m)

SpecCodec == Init /\ [][NextCodec]_vars

\* The activation applied to the drawn value, then to one larger value.
Activate ==
  /\ calc.pc = "drawn"
  /\ calc' = [calc EXCEPT !.pc = "applied", !.y = aeon_tanh_approx(calc.x), !.py = aeon_tanh_approx(calc.x)]
  /\ UNCHANGED << cores, file, last, hist, wire >>

ActivateNext(x) ==
  /\ calc.pc = "applied"
  /\ x > calc.x
  /\ calc' = [pc |-> "compared", x |-> x, y |-> aeon_tanh_approx(x), px |-> calc.x, py |-> calc.y]
  /\ UNCHANGED << cores, file, last, hist, wire >>

NextTanh ==
  \/ Activate
  \/ calc.pc = "applied" /\ \E x \in TanhInputs : ActivateNext(x)

SpecTanh == InitTanh /\ [][NextTanh]_vars

\* The sparse population of a birth from a seed of FillSeeds.
InitFill ==
  /\ InitEngine
  /\ \E s \in FillSeeds : calc = [pc |-> "seeded", seed |-> s]

\* The W_in draws, then the sparse-population loop of aeon_birth.
PopulateSparse ==
  /\ calc.pc = "seeded"
  /\ LET win == DrawWin(calc.seed, AEON_RESERVOIR_SIZE * AEON_INPUT_SIZE, << >>)
         total == AEON_RESERVOIR_SIZE * AEON_RESERVOIR_SIZE
         sp == FillSparse(win[2], 0, total, total \div AEON_SPARSITY_FACTOR,
                          << >>, << >>, << >>)
     IN  calc' = [pc |-> "populated", seed |-> calc.seed, start |-> win[2],
                  idxs |-> sp[1], ws |-> sp[2], rng |-> sp[3], cands |-> sp[4]]
  /\ UNCHANGED << cores, file, last, hist, wire >>

NextFill == PopulateSparse

SpecFill == InitFill /\ [][NextFill]_vars

\* A generator in one of RandomStates, before any draw.
InitRandom ==
  /\ InitEngine
  /\ \E s \in RandomStates : calc = [pc |-> "seeded", start |-> s, prev |-> s, state |-> s, ret |-> 0, n |-> 0]

\* One call of aeon_random: the state is replaced and its new value returned.
Draw ==
  /\ calc.n < MaxDraws
  /\ LET nx == aeon_random(calc.state)
     IN  calc' = [pc |-> "drawn", start |-> calc.start, prev |-> calc.state,
                  state |-> nx, ret |-> nx, n |-> calc.n + 1]
  /\ UNCHANGED << cores, file, last, hist, wire >>

NextRandom == Draw

SpecRandom == InitRandom /\ [][NextRandom]_vars

\* The locals of a birth in the header's configuration: the generator, the
\* input weights drawn and the sparse entries stored so far.
Unbuilt(seed) == [rng |-> seed, W_in |-> << >>, idxs |-> << >>, ws |-> << >>]

\* Two non-zero seeds that differ by a multiple of 1024, before the W_in loop.
InitSeed ==
  /\ InitEngine
  /\ \E s \in SeedLows, k \in SeedHighs :
       calc = [pc |-> "inputs", seed |-> s, other |-> s + 1024 * k, i |-> 0,
               a |-> Unbuilt(s), b |-> Unbuilt(s + 1024 * k)]

\* The next count passes of the W_in loop.
DrawInputsOf(side, count) ==
  LET win == DrawWin(side.rng, count, side.W_in)
  IN  [side EXCEPT !.W_in = win[1], !.rng = win[2]]

\* Passes from to to - 1 of the sparse-population loop (sparse_count never
\* exceeds the pass number, so the loop ends on the pass count alone).
PopulateOf(side, from, to) ==
  LET total == DefaultReservoirSize * DefaultReservoirSize
      sp == FillSparse(side.rng, from, total, to, side.idxs, side.ws, << >>)
  IN  [side EXCEPT !.idxs = sp[1], !.ws = sp[2], !.rng = sp[3]]

\* Both births advance by up to SeedChunk passes of the W_in loop.
DrawInputs ==
  /\ calc.pc = "inputs"
  /\ LET size == DefaultReservoirSize * AEON_INPUT_SIZE
         left == size - Len(calc.a.W_in)
         count == IF left < SeedChunk THEN left ELSE SeedChunk
     IN  calc' = [calc EXCEPT !.a = DrawInputsOf(@, count),
                              !.b = DrawInputsOf(@, count),
                              !.pc = IF left <= SeedChunk THEN "sparse" ELSE "inputs"]
  /\ UNCHANGED << cores, file, last, hist, wire >>

\* Both births advance by up to SeedChunk passes of the sparse-population
\* loop; after the last pass the reservoirs are built.
Populate ==
  /\ calc.pc = "sparse"
  /\ LET target == (DefaultReservoirSize * DefaultReservoirSize) \div DefaultSparsityFactor
         to == IF target - calc.i < SeedChunk THEN target ELSE calc.i + SeedChunk
     IN  calc' = [calc EXCEPT !.a = PopulateOf(@, calc.i, to),
                              !.b = PopulateOf(@, calc.i, to),
                              !.i = to,
                              !.pc = IF to = target THEN "built" ELSE "sparse"]
  /\ UNCHANGED << cores, file, last, hist, wire >>

NextSeed ==
  \/ DrawInputs
  \/ Populate

SpecSeed == InitSeed /\ [][NextSeed]_vars

\* Repeated training: core "a" is trained up to MaxRetrains times, on either
\* data set, between updates, resets and prunes.
NextTrain ==
  \/ Update("a", -200)
  \/ Reset("a")
  \/ \E thr \in Thresholds : Prune("a", thr)
  \/ /\ cores["a"].learning_sessions < MaxRetrains
     /\ \E d \in RetrainDataIds, n \in 1..MaxSamples, w \in Washouts :
          n > w /\ TrainCall("a", FALSE, d, n, w, RetrainSolvedId, TRUE)

SpecTrain == Init /\ [][NextTrain]_vars

(***************************************************************************)
(* Properties.                                                             *)
(***************************************************************************)
StateIdx == 0..(AEON_RESERVOIR_SIZE - 1)
ReadoutIdx == 0..(AEON_OUTPUT_SIZE * AEON_RESERVOIR_SIZE - 1)

\* C1: two cores just born from the same non-zero seed have identical W_in,
\* W_reservoir, sparse_indices and sparse_count and all-zero state and
\* readout, whatever the clock returned; their birth_hash is identical too
\* when the clock returned the same value at both births.
BirthDeterministic ==
  \A c \in CoreIds, d \in CoreIds :
    (hist[c].fresh /\ hist[d].fresh /\ hist[c].seed = hist[d].seed /\ hist[c].seed # 0)
    => /\ cores[c].W_in = cores[d].W_in
       /\ cores[c].W_reservoir = cores[d].W_reservoir
       /\ cores[c].sparse_indices = cores[d].sparse_indices
       /\ cores[c].sparse_count = cores[d].sparse_count
       /\ cores[c].state = Zeros(AEON_RESERVOIR_SIZE)
       /\ cores[c].W_out = Zeros(AEON_OUTPUT_SIZE * AEON_RESERVOIR_SIZE)
       /\ (hist[c].now = hist[d].now => cores[c].birth_hash = cores[d].birth_hash)

\* Both cores born from seed 12345, at different clock values.
BirthSameSeedOtherClock ==
  /\ last.op = "birth"
  /\ hist["a"].fresh /\ hist["b"].fresh
  /\ hist["a"].seed = 12345 /\ hist["b"].seed = 12345
  /\ hist["a"].now # hist["b"].now
  /\ cores["a"].birth_hash # cores["b"].birth_hash

\* C2: every reservoir state element stays within [-256, 256] (|x| <= 1.0),
\* whatever inputs were fed.
StateBounded ==
  \A c \in CoreIds : \A i \in StateIdx :
    cores[c].state[i] >= -AEON_SCALE /\ cores[c].state[i] <= AEON_SCALE

\* An update with the input 1000000 (3906.25) has driven elements of the
\* state to both saturation values.
StateSaturated ==
  /\ last.op = "update" /\ last.arg = 1000000
  /\ \E i \in StateIdx : cores[last.core].state[i] = AEON_SCALE
  /\ \E i \in StateIdx : cores[last.core].state[i] = -AEON_SCALE

\* C3: a train call with non-null arguments and n_samples <= washout returns
\* a negative sentinel and leaves every field of every core unchanged.
TrainRejectedUnchanged ==
  [][(last'.op = "train" /\ ~last'.arg.null /\ last'.arg.n <= last'.arg.w)
       => (last'.ret < 0 /\ cores' = cores)]_vars

\* A train call with n_samples <= washout has been rejected on a core that
\* has a non-zero state and was never trained.
TrainRejectedOnLiveCore ==
  /\ last.op = "train" /\ ~last.arg.null /\ last.arg.n <= last.arg.w
  /\ last.ret = -2
  /\ cores[last.core].state # Zeros(AEON_RESERVOIR_SIZE)
  /\ ~cores[last.core].is_trained
  /\ cores[last.core].learning_sessions = 0
  /\ cores[last.core].samples_processed > 0

\* C4: two cores that hold the same snapshot image (one saved it, the other
\* loaded it, both successfully) and have been fed the same inputs since are
\* equal field for field, and predict writes the same outputs for both.
SaveLoadRoundTrip ==
  \A c \in CoreIds, d \in CoreIds :
    (hist[c].img # << >> /\ hist[c].img = hist[d].img /\ hist[c].ins = hist[d].ins)
    => /\ cores[c] = cores[d]
       /\ aeon_predict(cores[c]).out = aeon_predict(cores[d]).out

\* Core "a" was trained and saved, core "b" loaded the snapshot, both were
\* then fed the same input and "b" predicts a non-zero output from a state
\* with negative elements.
LoadedTwinPredicts ==
  /\ hist["a"].img # << >> /\ hist["a"].img = hist["b"].img
  /\ hist["a"].ins = hist["b"].ins /\ Len(hist["a"].ins) >= 1
  /\ hist["b"].loaded /\ ~hist["a"].loaded
  /\ cores["b"].is_trained
  /\ \E i \in StateIdx : cores["b"].state[i] < 0
  /\ last.op = "predict" /\ last.core = "b" /\ last.out[0] # 0

\* C5: after prune(c, tau) every readout weight whose magnitude raw/256 was
\* below tau is zero and every other readout weight is unchanged.
PruneByMagnitude ==
  [][last'.op = "prune"
       => \A k \in ReadoutIdx :
            LET w == cores[last'.core].W_out[k]
                below == Abs(w) * ThresholdUnit < last'.arg * AEON_SCALE
            IN  cores'[last'.core].W_out[k] = IF below THEN 0 ELSE w]_vars

\* C6: after encoding a weight vector and decoding the payload with a
\* positive magnitude M, every recovered entry is +M or -M and has the sign
\* of the weight wherever the weight is not zero.
CodecSignsMatch ==
  wire.pc = "dequantized"
  => \A i \in 1..Len(wire.weights) :
       /\ wire.recovered[i] \in {wire.scale, 0 - wire.scale}
       /\ wire.weights[i] > 0 => wire.recovered[i] = wire.scale
       /\ wire.weights[i] < 0 => wire.recovered[i] = 0 - wire.scale

\* A vector that spans two payload bytes, with negative, zero and positive
\* weights and a positive last weight, has been encoded and decoded.
CodecTwoBytesDecoded ==
  /\ wire.pc = "dequantized"
  /\ wire.scale > 0
  /\ Len(wire.weights) > 8 /\ wire.ret = 2
  /\ wire.weights[Len(wire.weights)] > 0 /\ wire.weights[1] < 0 /\ wire.weights[2] = 0
  /\ \E i \in 3..8 : wire.weights[i] < 0
  /\ wire.packet[2] # 0

\* C7: a predict call changes no core and not the file, and a predict call
\* that follows a predict call on the same core writes the same outputs.
PredictPure ==
  [][last'.op = "predict"
       => /\ cores' = cores
          /\ file' = file
          /\ (last.op = "predict" /\ last.core = last'.core => last'.out = last.out)]_vars

\* predict has written a non-zero output from a trained core.
PredictedNonZero ==
  /\ last.op = "predict"
  /\ cores[last.core].is_trained
  /\ last.out[0] # 0

\* C8: a reset call zeroes every state element, changes nothing else of the
\* core it is called on, changes no other core, and a second reset would
\* leave the core as it is.
ResetZeroesStateOnly ==
  [][last'.op = "reset"
       => /\ cores'[last'.core].state = Zeros(AEON_RESERVOIR_SIZE)
          /\ cores' = [cores EXCEPT ![last'.core].state = Zeros(AEON_RESERVOIR_SIZE)]
          /\ aeon_reset(cores'[last'.core]) = cores'[last'.core]]_vars

\* reset has been called on a trained core that has processed samples.
ResetOfTrainedCore ==
  /\ last.op = "reset"
  /\ cores[last.core].is_trained
  /\ cores[last.core].samples_processed > 0
  /\ cores[last.core].learning_sessions > 0

SparseIndicesDistinct ==
  \A c \in CoreIds :
    /\ cores[c].sparse_count >= 0
    /\ cores[c].sparse_count <= (AEON_RESERVOIR_SIZE * AEON_RESERVOIR_SIZE) \div AEON_SPARSITY_FACTOR
    /\ \A j \in 0..(cores[c].sparse_count - 1) :
         /\ cores[c].sparse_indices[j] >= 0
         /\ cores[c].sparse_indices[j] < AEON_RESERVOIR_SIZE * AEON_RESERVOIR_SIZE
         /\ \A k \in 0..(cores[c].sparse_count - 1) :
              j # k => cores[c].sparse_indices[j] # cores[c].sparse_indices[k]

\* A core whose birth rejected a duplicate candidate (under-filled) has been
\* trained and pruned.
UnderfilledCorePruned ==
  /\ last.op = "prune"
  /\ cores[last.core].sparse_count < SparseCap
  /\ cores[last.core].sparse_count > 0
  /\ cores[last.core].is_trained

\* The certificate of a core.
Certificate(core) ==
  [birth_time |-> core.birth_time, birth_hash |-> core.birth_hash,
   reservoir_seed |-> core.reservoir_seed, reservoir_size |-> core.reservoir_size,
   version |-> core.version]

TrainOnlyReadout ==
  [][(last'.op = "train" /\ last'.ret >= 0)
       => LET before == cores[last'.core]
              after == cores'[last'.core]
          IN  /\ after.W_in = before.W_in
              /\ after.W_reservoir = before.W_reservoir
              /\ after.sparse_indices = before.sparse_indices
              /\ after.sparse_count = before.sparse_count
              /\ Certificate(after) = Certificate(before)
              /\ after = [before EXCEPT !.state = after.state,
                                        !.samples_processed = after.samples_processed,
                                        !.W_out = after.W_out,
                                        !.is_trained = after.is_trained,
                                        !.learning_sessions = after.learning_sessions]
              /\ \A c \in CoreIds \ {last'.core} : cores'[c] = cores[c]]_vars

\* A successful train has written a non-zero readout and left a non-zero
\* state on a core with recurrent connections and non-zero input weights.
TrainWroteReadout ==
  /\ last.op = "train" /\ last.ret >= 0
  /\ \E k \in ReadoutIdx : cores[last.core].W_out[k] # 0
  /\ \E i \in StateIdx : cores[last.core].state[i] # 0
  /\ cores[last.core].sparse_count > 0
  /\ \E i \in StateIdx : cores[last.core].W_in[i] # 0
  /\ cores[last.core].samples_processed > 0

\* C13: a train call returns -1 when one of its pointer arguments is null,
\* whatever the sample count; else -2 when n_samples <= washout; else a
\* non-negative value.  A negative return value is a rejected call.
TrainSentinels ==
  last.op = "train"
  => /\ last.arg.null => last.ret = -1
     /\ (~last.arg.null /\ last.arg.n <= last.arg.w) => last.ret = -2
     /\ (~last.arg.null /\ last.arg.n > last.arg.w) => last.ret >= 0
     /\ last.ret < 0 <=> (last.arg.null \/ last.arg.n <= last.arg.w)

\* train was called with a null pointer and too few samples at once.
NullTrainWithTooFewSamples ==
  /\ last.op = "train"
  /\ last.arg.null /\ last.arg.n <= last.arg.w
  /\ last.ret = -1

\* C14: encoding n weights returns ceil(n/8) and fills that many bytes; bit
\* k mod 8 of byte k div 8 is 1 iff weight k is >= 0, the unused bits of the
\* last byte are 0, and decoding with magnitude M gives +M where that bit is
\* 1 and -M where it is 0.  Sixteen weights alternating +0.3, -0.7 encode
\* as 0x55, 0x55 and decode with M = 32 as alternating +32, -32.
CodecLayout ==
  LET n == Len(wire.weights)
      bit(k) == (wire.packet[(k \div 8) + 1] \div Pow2(k % 8)) % 2
  IN  /\ wire.pc \in {"quantized", "dequantized"}
         => /\ wire.ret = (n + 7) \div 8
            /\ Len(wire.packet) = wire.ret
            /\ \A k \in 0..(n - 1) : bit(k) = 1 <=> wire.weights[k + 1] >= 0
            /\ \A k \in n..(8 * wire.ret - 1) : bit(k) = 0
            /\ wire.weights = AlternatingWeights => wire.packet = << 85, 85 >>
      /\ wire.pc = "dequantized"
         => /\ \A k \in 0..(n - 1) :
                 wire.recovered[k + 1] = IF bit(k) = 1 THEN wire.scale ELSE 0 - wire.scale
            /\ (wire.weights = AlternatingWeights /\ wire.scale = 3200)
               => wire.recovered = [k \in 1..16 |-> IF k % 2 = 1 THEN 3200 ELSE -3200]

\* The sixteen alternating weights have been encoded into two bytes and
\* decoded with magnitude 32.
AlternatingDecoded ==
  /\ wire.pc = "dequantized"
  /\ wire.weights = AlternatingWeights
  /\ wire.ret = 2 /\ wire.scale = 3200
  /\ wire.recovered[1] = 3200 /\ wire.recovered[16] = -3200

\* C15: an update call with non-null arguments increases samples_processed
\* by exactly 1 and changes no field of the core other than state and
\* samples_processed, no other core and not the file; an update call with a
\* null core or a null input changes nothing.
UpdateFrame ==
  [][/\ last'.op = "update"
        => LET before == cores[last'.core]
               after == cores'[last'.core]
           IN  /\ after.samples_processed = before.samples_processed + 1
               /\ after = [before EXCEPT !.state = after.state,
                                         !.samples_processed = after.samples_processed]
               /\ \A c \in CoreIds \ {last'.core} : cores'[c] = cores[c]
               /\ file' = file
     /\ last'.op = "update_null" => (cores' = cores /\ file' = file)]_vars

\* update has been called on a trained core and has left a state with a
\* negative and a positive element.
UpdatedTrainedCore ==
  /\ last.op = "update"
  /\ cores[last.core].is_trained
  /\ cores[last.core].samples_processed > 1
  /\ \E i \in StateIdx : cores[last.core].state[i] < 0
  /\ \E i \in StateIdx : cores[last.core].state[i] > 0

\* C16: a prune call returns the number of readout weights whose magnitude
\* raw/256 was below the threshold when it was called, which is at most O*N
\* and 0 for a threshold <= 0, and changes nothing but W_out.
PruneCountAndFrame ==
  [][last'.op = "prune"
       => LET before == cores[last'.core]
              after == cores'[last'.core]
              below == {k \in ReadoutIdx :
                          Abs(before.W_out[k]) * ThresholdUnit < last'.arg * AEON_SCALE}
          IN  /\ last'.ret = Cardinality(below)
              /\ last'.ret <= AEON_OUTPUT_SIZE * AEON_RESERVOIR_SIZE
              /\ last'.arg <= 0 => last'.ret = 0
              /\ after = [before EXCEPT !.W_out = after.W_out]
              /\ \A c \in CoreIds \ {last'.core} : cores'[c] = cores[c]
              /\ file' = file]_vars

\* C17: a core just born from a non-zero seed records that seed; a core just
\* born from seed 0 records the birth_time of its certificate as its seed,
\* its first input weight is the first draw of the generator seeded with
\* that value, and all its weights and its mask are those of a core born
\* from that value given as the seed.
EffectiveSeedRecorded ==
  \A c \in CoreIds :
    hist[c].fresh
    => /\ hist[c].seed # 0 => cores[c].reservoir_seed = hist[c].seed
       /\ hist[c].seed = 0
          => /\ cores[c].birth_time = hist[c].now
             /\ cores[c].reservoir_seed = cores[c].birth_time
             /\ cores[c].W_in[0] = (aeon_random(cores[c].birth_time) % 256) - 128
             /\ \A d \in CoreIds :
                  (hist[d].fresh /\ hist[d].seed = cores[c].birth_time)
                  => /\ cores[d].reservoir_seed = cores[c].reservoir_seed
                     /\ cores[d].W_in = cores[c].W_in
                     /\ cores[d].W_reservoir = cores[c].W_reservoir
                     /\ cores[d].sparse_indices = cores[c].sparse_indices
                     /\ cores[d].sparse_count = cores[c].sparse_count

\* Core "a" was born from seed 0 and core "b" from the clock value of that
\* birth given as the seed, at another clock value.
BornFromZeroSeed ==
  /\ hist["a"].fresh /\ hist["b"].fresh
  /\ hist["a"].seed = 0 /\ hist["b"].seed = hist["a"].now
  /\ hist["b"].now # hist["a"].now
  /\ cores["a"].reservoir_seed = 1700000000
  /\ \E i \in StateIdx : cores["a"].W_in[i] # 0

\* The sign of a raw value times the scale.
SignTimesScale(x) == IF x > 0 THEN AEON_SCALE ELSE IF x < 0 THEN -AEON_SCALE ELSE 0

\* x - x^3/3 with floor(x*x / 256) and floor(x2*x / 256), the division by 3
\* truncating.
CubicApprox(x) == x - TruncDiv(((((x * x) \div 256) * x) \div 256), 3)

\* C19 as stated: the activation of x is sign(x)*256 when |x| >= 256 and
\* x - x^3/3 when |x| < 256.
TanhClampsFromOne ==
  calc.pc \in {"applied", "compared"}
  => calc.y = IF Abs(calc.x) >= AEON_SCALE THEN SignTimesScale(calc.x) ELSE CubicApprox(calc.x)

\* C19 (amended): the activation of x is sign(x)*256 when |x| > 256 and
\* x - x^3/3 when |x| <= 256, which is +171 at x = +256 and -171 at x = -256.
TanhClampsBeyondOne ==
  calc.pc \in {"applied", "compared"}
  => /\ calc.y = IF Abs(calc.x) > AEON_SCALE THEN SignTimesScale(calc.x) ELSE CubicApprox(calc.x)
     /\ calc.x = AEON_SCALE => calc.y = 171
     /\ calc.x = -AEON_SCALE => calc.y = -171

\* The activation has been applied to the boundary value 256 after -256.
TanhAtBoundary ==
  /\ calc.pc = "compared"
  /\ calc.px = -AEON_SCALE /\ calc.py = -171
  /\ calc.x = AEON_SCALE /\ calc.y = 171

\* C20: for raw x < y in [-257, 257] the activation of x is at most the
\* activation of y.
TanhMonotone ==
  (calc.pc = "compared" /\ calc.px < calc.x
     /\ calc.px >= -(AEON_SCALE + 1) /\ calc.x <= AEON_SCALE + 1)
  => calc.py <= calc.y

\* The activation has been applied across the upper saturation boundary,
\* to 256 and then to 257.
TanhAcrossBoundary ==
  /\ calc.pc = "compared"
  /\ calc.px = AEON_SCALE /\ calc.x = AEON_SCALE + 1
  /\ calc.py < calc.y

RECURSIVE SumFn(_, _)
\* The sum of f[k] over the k of the finite set S.
SumFn(f, S) ==
  IF S = {} THEN 0
  ELSE LET k == CHOOSE k \in S : TRUE IN f[k] + SumFn(f, S \ {k})

\* The pre-activation of row i for the scalar x on every input line: the
\* shifted input products plus the shifted products of the stored entries
\* of row i with the given state vector.
PreActivation(core, x, i) ==
  LET row_entries == {k \in 0..(core.sparse_count - 1) :
                        core.sparse_indices[k] \div AEON_RESERVOIR_SIZE = i}
  IN  SumFn([j \in 0..(AEON_INPUT_SIZE - 1) |->
               (core.W_in[i * AEON_INPUT_SIZE + j] * x) \div 256],
            0..(AEON_INPUT_SIZE - 1))
      + SumFn([k \in row_entries |->
                 (core.W_reservoir[k]
                    * core.state[core.sparse_indices[k] % AEON_RESERVOIR_SIZE]) \div 256],
              row_entries)

\* C21: an update call sets every state element i to the activation of the
\* pre-activation of row i computed from the state vector before the call;
\* entries at positions >= sparse_count contribute nothing.
UpdateSynchronous ==
  [][last'.op = "update"
       => \A i \in StateIdx :
            cores'[last'.core].state[i]
              = aeon_tanh_approx(PreActivation(cores[last'.core], last'.arg, i))]_vars

\* A second update has been applied to a core whose stored entries read a
\* column of a lower row, from a state that the first update made non-zero,
\* and has left an unsaturated element.
UpdatedFromNonZeroState ==
  /\ last.op = "update"
  /\ hist[last.core].updates >= 2
  /\ cores[last.core].sparse_count < SparseCap
  /\ \E k \in 0..(cores[last.core].sparse_count - 1) :
       (cores[last.core].sparse_indices[k] % AEON_RESERVOIR_SIZE)
         < (cores[last.core].sparse_indices[k] \div AEON_RESERVOIR_SIZE)
  /\ \E i \in StateIdx : Abs(cores[last.core].state[i]) \notin {0, AEON_SCALE}

RECURSIVE RandomIter(_, _)
\* The generator state after n draws from state s.
RandomIter(s, n) == IF n = 0 THEN s ELSE RandomIter(aeon_random(s), n - 1)

\* C22: the sparse-population loop draws exactly floor(N*N/S) candidates;
\* it leaves the generator where one draw per rejected candidate and two per
\* accepted candidate lead; the number of entries stored is the number of
\* distinct candidates, which is below the target exactly when a candidate
\* was drawn twice, and it is the sparse_count of the core born from the seed.
SparseFillTerminates ==
  calc.pc = "populated"
  => LET target == (AEON_RESERVOIR_SIZE * AEON_RESERVOIR_SIZE) \div AEON_SPARSITY_FACTOR
         accepted == Len(calc.idxs)
         rejected == Len(calc.cands) - accepted
         repeated == \E p \in 1..Len(calc.cands), q \in 1..Len(calc.cands) :
                       p < q /\ calc.cands[p] = calc.cands[q]
     IN  /\ Len(calc.cands) = target
         /\ calc.rng = RandomIter(calc.start, rejected + 2 * accepted)
         /\ accepted = Cardinality({calc.cands[p] : p \in 1..Len(calc.cands)})
         /\ Len(calc.ws) = accepted
         /\ accepted < target <=> repeated
         /\ aeon_birth(calc.seed, 1700000000).sparse_count = accepted

\* The loop has ended under-filled: a candidate was drawn twice.
SparseUnderfilled ==
  /\ calc.pc = "populated"
  /\ Len(calc.idxs) < Len(calc.cands)
  /\ Len(calc.idxs) > 0

\* C23: in every state reached through update, predict, reset, train and
\* prune every readout weight is within [-512, 512] raw (|w| <= 2.0),
\* whatever values the solve produced.
ReadoutBounded ==
  \A c \in CoreIds : \A k \in ReadoutIdx :
    /\ cores[c].W_out[k] >= -(2 * AEON_SCALE)
    /\ cores[c].W_out[k] <= 2 * AEON_SCALE

\* A train whose solved values were beyond -2.0 has stored the lower limit.
ReadoutClampedLow ==
  /\ last.op = "train" /\ last.ret >= 0
  /\ \E k \in ReadoutIdx : cores[last.core].W_out[k] = -(2 * AEON_SCALE)

RECURSIVE TimesMod31(_, _)
\* a * b modulo 2^31, one hexadecimal digit of b at a time:
\* a * b = a * (b % 16) + 16 * (a * (b \div 16)).
TimesMod31(a, b) ==
  IF b = 0 THEN 0
  ELSE LET d == b % 16
           digit == AddMod31((((a \div 134217728) * d) % 16) * 134217728,
                             (a % 134217728) * d)
           rest == TimesMod31(a, b \div 16)
       IN  AddMod31(digit, (rest % 134217728) * 16)

\* C24: a draw replaces the state s by (s * 1103515245 + 12345) mod 2^31 and
\* returns the stored value, which lies in [0, 2^31); the n-th value depends
\* only on the initial state (12345 gives 1406932606, 654583775, 1449466924).
RandomStep ==
  calc.pc = "drawn"
  => /\ calc.state = AddMod31(TimesMod31(calc.prev, 1103515245), 12345)
     /\ calc.ret = calc.state
     /\ calc.state >= 0 /\ calc.state <= MaxInt31
     /\ calc.state = RandomIter(calc.start, calc.n)
     /\ LET known == << 1406932606, 654583775, 1449466924 >>
        IN  (calc.start = 12345 /\ calc.n <= Len(known)) => calc.state = known[calc.n]
     /\ calc.prev = MaxInt31 => calc.state = 1043980748

\* A draw from a state above 2^30 has returned a value above 2^30.
RandomDrawnHigh ==
  /\ calc.pc = "drawn"
  /\ calc.prev > 1073741824
  /\ calc.state > 1073741824

\* C25: two cores just born at different clock values, both from the same
\* non-zero seed or both from seed 0, have different birth_hash values.
BirthHashUnique ==
  \A c \in CoreIds, d \in CoreIds :
    (hist[c].fresh /\ hist[d].fresh /\ hist[c].seed = hist[d].seed
       /\ hist[c].now # hist[d].now)
    => cores[c].birth_hash # cores[d].birth_hash

\* C26: the activation is odd: the activation of -x is the negation of the
\* activation of x, for every raw x.
TanhOdd ==
  (calc.pc = "compared" /\ calc.px = -calc.x) => calc.py = -calc.y

\* C27: a successful train(inputs, targets, T, washout) leaves the state and
\* samples_processed that reset; update on inputs[0..T-1]; reset; update on
\* inputs[washout..T-1] leave: the state is the one reached from the all-zero
\* state by the T - washout replay inputs, and samples_processed has grown by
\* 2*T - washout.
TrainDynamicEffect ==
  [][(last'.op = "train" /\ last'.ret >= 0)
       => LET c == last'.core
              T == last'.arg.n
              w == last'.arg.w
              inputs == TrainInputs(last'.arg.d)
          IN  \A harvest \in {RunUpdates(aeon_reset(cores[c]), inputs, 0, T)} :
              \A replay \in {RunUpdates(aeon_reset(harvest), inputs, w, T)} :
              \A cold \in {RunUpdates(aeon_reset(cores[c]), inputs, w, T)} :
                /\ cores'[c].state = replay.state
                /\ cores'[c].state = cold.state
                /\ cores'[c].samples_processed = replay.samples_processed
                /\ cores'[c].samples_processed
                     = cores[c].samples_processed + 2 * T - w]_vars

\* A second train, with a washout, has succeeded on a core that had been
\* updated, and has left a state other than the one after its T training
\* updates.
TrainedWithWashout ==
  /\ last.op = "train" /\ last.ret >= 0
  /\ last.arg.w > 0
  /\ hist[last.core].trains = 2
  /\ hist[last.core].updates > 0
  /\ cores[last.core].state
       # RunUpdates(aeon_reset(cores[last.core]), TrainInputs(last.arg.d), 0, last.arg.n).state

\* C28: a core on which no train has succeeded since its birth (is_trained
\* is false) has an all-zero readout, and predict writes all-zero outputs
\* for it, whatever updates, resets, prunes, predicts and rejected trains it
\* has been through.
UntrainedPredictsZero ==
  \A c \in CoreIds :
    ~cores[c].is_trained
    => /\ cores[c].W_out = Zeros(AEON_OUTPUT_SIZE * AEON_RESERVOIR_SIZE)
       /\ aeon_predict(cores[c]).out = Zeros(AEON_OUTPUT_SIZE)
       /\ (last.op = "predict" /\ last.core = c) => last.out = Zeros(AEON_OUTPUT_SIZE)

\* Predict has been called on an untrained core whose state the updates
\* have made non-zero.
UntrainedPredicted ==
  /\ last.op = "predict"
  /\ ~cores[last.core].is_trained
  /\ hist[last.core].updates = MaxUpdates
  /\ \E i \in StateIdx : cores[last.core].state[i] # 0

\* The core with the reservoir and certificate of the given one and the
\* state, readout and counters of a newborn.
Blank(core) ==
  [core EXCEPT !.state = Zeros(AEON_RESERVOIR_SIZE),
               !.W_out = Zeros(AEON_OUTPUT_SIZE * AEON_RESERVOIR_SIZE),
               !.samples_processed = 0,
               !.learning_sessions = 0,
               !.is_trained = FALSE]

\* C29: the rows a successful train gives the solve, the readout it stores
\* and the MSE it returns are those of the same call on a core with the same
\* reservoir and zero state, readout and counters; a train that follows a
\* successful train with the same arguments accumulates the same rows, stores
\* the same readout and returns the same MSE; learning_sessions grows by one
\* per successful call.
TrainIgnoresHistory ==
  [][(last'.op = "train" /\ last'.ret >= 0)
       => LET c == last'.core
              n == last'.arg.n
              w == last'.arg.w
              inputs == TrainInputs(last'.arg.d)
              targets == TrainTargets(last'.arg.d, n)
          IN  /\ \A fresh \in {aeon_train(Blank(cores[c]), FALSE, inputs, targets, n, w,
                                          Solved(RetrainSolvedId))} :
                   /\ cores'[c].W_out = fresh.core.W_out
                   /\ last'.ret = fresh.ret
              /\ last'.out = TrainHarvest(Blank(cores[c]), inputs, targets, n, w)
              /\ cores'[c].learning_sessions = cores[c].learning_sessions + 1
              /\ (last.op = "train" /\ last.ret >= 0 /\ last.core = c /\ last.arg = last'.arg)
                 => /\ last'.out = last.out
                    /\ cores'[c].W_out = cores[c].W_out
                    /\ last'.ret = last.ret]_vars

\* A second train has succeeded on a core that had been updated, with rows
\* harvested after the washout and a non-zero readout.
RetrainedAfterUpdates ==
  /\ last.op = "train" /\ last.ret > 0
  /\ hist[last.core].trains = 2
  /\ hist[last.core].updates = MaxUpdates
  /\ cores[last.core].learning_sessions = 2
  /\ last.arg.w > 0
  /\ Len(last.out) = last.arg.n - last.arg.w
  /\ \E i \in StateIdx : last.out[1].state[i] # 0
  /\ \E k \in ReadoutIdx : cores[last.core].W_out[k] # 0

\* C30: with N = 32, I = 1 and S = 4, two non-zero seeds congruent modulo
\* 1024 give identical W_in, W_reservoir, sparse_indices and sparse_count.
ReservoirFromLowSeedBits ==
  calc.pc = "built"
  => /\ calc.seed # 0 /\ calc.other # 0
     /\ calc.seed % 1024 = calc.other % 1024
     /\ Len(calc.a.W_in) = DefaultReservoirSize * AEON_INPUT_SIZE
     /\ calc.a.W_in = calc.b.W_in
     /\ calc.a.ws = calc.b.ws
     /\ calc.a.idxs = calc.b.idxs
     /\ Len(calc.a.idxs) = Len(calc.b.idxs)

\* Two reservoirs have been built from seeds 1024 apart: the generators
\* ended in different states and the sparse entries are in place.
SeedsApartBuilt ==
  /\ calc.pc = "built"
  /\ calc.other = calc.seed + 1024
  /\ calc.a.rng # calc.b.rng
  /\ Len(calc.a.idxs) > 0
  /\ Len(calc.a.ws) = Len(calc.a.idxs)
  /\ \E k \in 1..Len(calc.a.ws) : calc.a.ws[k] # 0
====
